---- MODULE Spec2Model ----
(***************************************************************************)
(* Association-rules API (src/app.py): one HTTP request is served from the *)
(* transaction file.  generate_rules loads the file, mines the frequent    *)
(* itemsets level by level (apriori), derives the rules that meet the      *)
(* confidence threshold (association_rules), filters them by lift and      *)
(* expands every rule into one record per invoice holding its antecedent.  *)
(*                                                                         *)
(* Products are numbered 1..NumProducts in the order of the columns of the *)
(* incidence matrix (unstack sorts the product names), invoices 1..N in    *)
(* the order of its index.  A threshold or a metric is a fraction <<n, d>> *)
(* with d > 0; the supports of the program are count / N, so every         *)
(* comparison the program makes on floats is made here on the exact        *)
(* fractions.                                                              *)
(***************************************************************************)
EXTENDS Integers, Sequences, FiniteSets, TLC

NumProducts == 3
MaxInvoices == 2

Products == 1 .. NumProducts
Itemsets == (SUBSET Products) \ {{}}

(* Query-string values of /api/rules/filter, as fractions. *)
SupportArgs == {<<0, 1>>, <<1, 100>>, <<1, 2>>, <<1, 1>>, <<3, 2>>}
ConfidenceArgs == {<<1, 5>>, <<1, 2>>, <<1, 1>>}
LiftArgs == {<<1, 1>>, <<3, 2>>}

(* The product parameter: 0 is a missing or empty parameter, and           *)
(* NumProducts + 1 a name that is in no row of the file.                   *)
ProductArgs == 0 .. (NumProducts + 1)

(* def generate_rules(min_support=0.01, min_confidence=0.2, min_lift=1.0) *)
DefaultMinSupport == <<1, 100>>
DefaultMinConfidence == <<1, 5>>
DefaultMinLift == <<1, 1>>

VARIABLES df, handler, product, min_support, min_confidence, min_lift, pc,
          transaction_data, itemset_dict, support_dict, max_itemset,
          frequent_itemsets, rules, rule_records, filtered, response

vars == <<df, handler, product, min_support, min_confidence, min_lift, pc,
          transaction_data, itemset_dict, support_dict, max_itemset,
          frequent_itemsets, rules, rule_records, filtered, response>>

(***************************************************************************)
(* Arithmetic on fractions                                                 *)
(***************************************************************************)
Geq(a, b) == a[1] * b[2] >= b[1] * a[2]
Quot(a, b) == <<a[1] * b[2], a[2] * b[1]>>
SameValue(a, b) == a[1] * b[2] = b[1] * a[2]

Max(S) == CHOOSE x \in S : \A y \in S : y <= x

AscendingOf(T) ==
    IF T = {} THEN <<>>
    ELSE LET member(x) == x \in T
         IN  SelectSeq([i \in 1 .. Max(T) |-> i], member)

(* sorted(S) for a set of numbers (S is evaluated once) *)
Ascending(S) == CHOOSE seq \in {AscendingOf(T) : T \in {S}} : TRUE

Pow2(n) == 2 ^ n

RECURSIVE Key(_)
Key(S) == IF S = {} THEN 0
          ELSE LET p == CHOOSE x \in S : TRUE
               IN  Pow2(NumProducts + 1 - p) + Key(S \ {p})

(* Position of an itemset in the frequent-itemset table: by size, then by  *)
(* the sorted tuple of its column indices.                                 *)
Rank(S) == Cardinality(S) * Pow2(NumProducts + 2) + (Pow2(NumProducts + 2) - Key(S))

(* Position of an antecedent in the enumeration of one itemset: larger     *)
(* antecedents first (for idx in range(len(k) - 1, 0, -1)).                *)
AntRank(S) == (NumProducts + 1 - Cardinality(S)) * Pow2(NumProducts + 2)
              + (Pow2(NumProducts + 2) - Key(S))

RECURSIVE SortByRank(_)
SortByRank(S) == IF S = {} THEN <<>>
                 ELSE LET m == CHOOSE x \in S : \A y \in S : Rank(x) <= Rank(y)
                      IN  <<m>> \o SortByRank(S \ {m})

RECURSIVE SortByAntRank(_)
SortByAntRank(S) == IF S = {} THEN <<>>
                    ELSE LET m == CHOOSE x \in S : \A y \in S : AntRank(x) <= AntRank(y)
                         IN  <<m>> \o SortByAntRank(S \ {m})

AllByRank == SortByRank(Itemsets)
AllByAntRank == SortByAntRank(Itemsets)

(* The itemsets of S in the order of Rank, and in the order of AntRank. *)
ByRank(S) == LET member(x) == x \in S IN SelectSeq(AllByRank, member)
ByAntRank(S) == LET member(x) == x \in S IN SelectSeq(AllByAntRank, member)

(* The concatenation of the n sequences f[1], ..., f[n]. *)
RECURSIVE FlattenTo(_, _)
FlattenTo(f, n) == IF n = 0 THEN <<>> ELSE FlattenTo(f, n - 1) \o f[n]

Flatten(ss) == FlattenTo(ss, Len(ss))

(***************************************************************************)
(* load_transaction_data                                                   *)
(***************************************************************************)
InvoiceIds(d) == {r[1] : r \in d}
Columns(d) == {r[2] : r \in d}

(* groupby(['Invoice ID', 'Product']).size().unstack(fill_value=0), then   *)
(* (transaction_data > 0).astype(int)                                      *)
Incidence(d) ==
    [i \in InvoiceIds(d) |->
        [p \in Columns(d) |->
            IF Cardinality({r \in d : r[1] = i /\ r[2] = p}) > 0 THEN 1 ELSE 0]]

(***************************************************************************)
(* apriori                                                                 *)
(***************************************************************************)
SupportOfColumns_AnyItem(X, c) ==
    <<Cardinality({i \in DOMAIN X : \E p \in c : X[i][p] = 1}),
      Cardinality(DOMAIN X)>>

SupportOfColumns_LastItem(X, c) ==
    <<Cardinality({i \in DOMAIN X : X[i][Max(c)] = 1}),
      Cardinality(DOMAIN X)>>

(* np.sum(_x, axis=0) / _n_rows over the rows holding every item of c *)
SupportOfColumns(X, c) ==
    <<Cardinality({i \in DOMAIN X : \A p \in c : X[i][p] = 1}),
      Cardinality(DOMAIN X)>>

IsFrequent_Strict(s, minsup) == ~Geq(minsup, s)
IsFrequent(s, minsup) == Geq(s, minsup)

generate_new_combinations_Adjacent(old_combinations) ==
    LET items_types_in_previous_step == UNION old_combinations
    IN  UNION {{c \cup {item} : item \in {x \in items_types_in_previous_step : x = Max(c) + 1}}
               : c \in old_combinations}

(* Every frequent itemset of the level, extended by each item of the level *)
(* that is greater than its last item.                                     *)
generate_new_combinations(old_combinations) ==
    LET items_types_in_previous_step == UNION old_combinations
    IN  UNION {{c \cup {item} : item \in {x \in items_types_in_previous_step : x > Max(c)}}
               : c \in old_combinations}

Mined == UNION {itemset_dict[l] : l \in DOMAIN itemset_dict}

(***************************************************************************)
(* Initial state: the file on disk, no request yet.  The invoices of the   *)
(* file are listed in the order of Rank: the program reads an invoice id   *)
(* only as a group key, so a permutation of the invoices is the same file. *)
(***************************************************************************)
Files ==
    UNION {{t \in [1 .. n -> Itemsets] :
                \A i \in 1 .. (n - 1) : Rank(t[i]) <= Rank(t[i + 1])}
           : n \in 0 .. MaxInvoices}

Rows(t) == {r \in (DOMAIN t) \X Products : r[2] \in t[r[1]]}

Idle ==
    /\ handler = "none"
    /\ product = 0
    /\ min_support = DefaultMinSupport
    /\ min_confidence = DefaultMinConfidence
    /\ min_lift = DefaultMinLift
    /\ pc = "idle"
    /\ transaction_data = <<>>
    /\ itemset_dict = <<>>
    /\ support_dict = <<>>
    /\ max_itemset = 0
    /\ frequent_itemsets = <<>>
    /\ rules = <<>>
    /\ rule_records = <<>>
    /\ filtered = <<>>
    /\ response = [status |-> 0, message |-> "", body |-> <<>>]

Init ==
    /\ \E t \in Files : df = Rows(t)
    /\ Idle


(***************************************************************************)
(* association_rules(frequent_itemsets, metric="confidence", min_threshold) *)
(***************************************************************************)
frequent_items_dict(fi) ==
    [k \in {fi[j].itemsets : j \in DOMAIN fi} |->
        fi[CHOOSE j \in DOMAIN fi : fi[j].itemsets = k].support]

Confidence_OverConsequent(sAC, sA, sC) == Quot(sAC, sC)
Confidence(sAC, sA, sC) == Quot(sAC, sA)
Lift_SupportOverConsequent(sAC, sA, sC) == Quot(sAC, sC)
Lift(sAC, sA, sC) == Quot(Confidence(sAC, sA, sC), sC)

(* The splits of one frequent itemset k that reach the threshold. *)
RulesOf(dict, k, min_threshold) ==
    LET ants == ByAntRank((SUBSET k) \ {{}, k})
        cand == [j \in 1 .. Len(ants) |->
                    LET antecedent == ants[j]
                        consequent == k \ antecedent
                        sAC == dict[k]
                        sA == dict[antecedent]
                        sC == dict[consequent]
                    IN  [antecedents |-> antecedent,
                         consequents |-> consequent,
                         support |-> sAC,
                         confidence |-> Confidence(sAC, sA, sC),
                         lift |-> Lift(sAC, sA, sC)]]
        score(r) == Geq(r.confidence, min_threshold)
    IN  SelectSeq(cand, score)

association_rules(fi, min_threshold) ==
    LET dict == frequent_items_dict(fi)
    IN  Flatten([j \in 1 .. Len(fi) |-> RulesOf(dict, fi[j].itemsets, min_threshold)])

LiftFiltered_Unfiltered(rs, minlift) == rs

(* rules[rules['lift'] >= min_lift] *)
LiftFiltered(rs, minlift) ==
    LET keep(r) == Geq(r.lift, minlift)
    IN  SelectSeq(rs, keep)

(***************************************************************************)
(* The invoice loop of generate_rules                                      *)
(***************************************************************************)
(* set(df[df['Invoice ID'] == invoice_id]['Product']) *)
ProductsOf(d, invoice_id) == {p \in Products : <<invoice_id, p>> \in d}

HoldsAntecedent_AnyItem(ant, products) == ant \cap products # {}
HoldsAntecedent(ant, products) == ant \subseteq products

RecordsOf(d, invoice_ids, row) ==
    LET all == [j \in 1 .. Len(invoice_ids) |->
                    [invoice_id |-> invoice_ids[j],
                     antecedents |-> row.antecedents,
                     consequents |-> row.consequents,
                     support |-> row.support,
                     confidence |-> row.confidence,
                     lift |-> row.lift]]
        hit(rec) == HoldsAntecedent(rec.antecedents, ProductsOf(d, rec.invoice_id))
    IN  SelectSeq(all, hit)

RuleRecordsOf(d, invoice_ids, rs) ==
    Flatten([j \in 1 .. Len(rs) |-> RecordsOf(d, invoice_ids, rs[j])])

(***************************************************************************)
(* filter_rules_by_product                                                 *)
(***************************************************************************)
Roles == {"antecedent", "consequent", "any"}

Matches_Swapped(row, prod, role) ==
    \/ role = "antecedent" /\ prod \in row.consequents
    \/ role = "consequent" /\ prod \in row.antecedents
    \/ role = "any" /\ (prod \in row.antecedents \/ prod \in row.consequents)

Matches(row, prod, role) ==
    \/ role = "antecedent" /\ prod \in row.antecedents
    \/ role = "consequent" /\ prod \in row.consequents
    \/ role = "any" /\ (prod \in row.antecedents \/ prod \in row.consequents)

(* The rows of rules_df that match, in the order of rules_df.iterrows(). *)
filter_rules_by_product(rules_df, prod, role) ==
    LET keep(row) == Matches(row, prod, role)
    IN  SelectSeq(rules_df, keep)

(***************************************************************************)
(* Error messages (generate_rules prefixes its own with "Error generating  *)
(* rules: ") and responses                                               *)
(***************************************************************************)
MsgEmptyFile == "The Excel file is empty."
MsgNoTransactions == "No valid transactions found."
MsgMinSupport == "min_support must be a positive number within the interval (0, 1]."
MsgNoItemsets == "No frequent itemsets found. Try lowering min_support."
MsgNoRules == "No association rules found. Try lowering min_confidence."
MsgNoRulesAfterLift == "No rules found after applying lift filter. Try lowering min_lift."
MsgProductRequired == "Product parameter is required"
MsgKeyConsequents == "KeyError: consequents"
MsgKeyAntecedents == "KeyError: antecedents"

Respond(status, message, body) ==
    /\ response' = [status |-> status, message |-> message, body |-> body]
    /\ pc' = "done"

(* except Exception as e: return jsonify({'status': 'error', ...}), 500 *)
Fail(message) == Respond(500, message, <<>>)

(***************************************************************************)
(* Requests                                                                *)
(***************************************************************************)
ReqGetRules ==
    /\ pc = "idle"
    /\ handler' = "get_rules"
    /\ pc' = "load"
    /\ UNCHANGED <<df, product, min_support, min_confidence, min_lift,
                   transaction_data, itemset_dict, support_dict, max_itemset,
                   frequent_itemsets, rules, rule_records, filtered, response>>

ReqFilterRules ==
    /\ pc = "idle"
    /\ \E ms \in SupportArgs, mc \in ConfidenceArgs, ml \in LiftArgs :
          /\ min_support' = ms
          /\ min_confidence' = mc
          /\ min_lift' = ml
    /\ handler' = "filter_rules"
    /\ pc' = "load"
    /\ UNCHANGED <<df, product, transaction_data, itemset_dict, support_dict,
                   max_itemset, frequent_itemsets, rules, rule_records,
                   filtered, response>>

(* product = request.args.get('product'); if not product: return ..., 400 *)
ReqByProductParam(name) ==
    /\ pc = "idle"
    /\ handler' = name
    /\ \E prod \in ProductArgs :
          /\ product' = prod
          /\ IF prod = 0
             THEN Respond(400, MsgProductRequired, <<>>)
             ELSE pc' = "load" /\ UNCHANGED response
    /\ UNCHANGED <<df, min_support, min_confidence, min_lift,
                   transaction_data, itemset_dict, support_dict, max_itemset,
                   frequent_itemsets, rules, rule_records, filtered>>

ReqRulesByAntecedent == ReqByProductParam("rules_by_antecedent")
ReqRulesByConsequent == ReqByProductParam("rules_by_consequent")
ReqRulesByProduct == ReqByProductParam("rules_by_product")

(***************************************************************************)
(* generate_rules, step by step                                            *)
(***************************************************************************)
LoadTransactionData ==
    /\ pc = "load"
    /\ IF df = {}
       THEN Fail(MsgEmptyFile) /\ UNCHANGED transaction_data
       ELSE IF DOMAIN Incidence(df) = {}
       THEN Fail(MsgNoTransactions) /\ UNCHANGED transaction_data
       ELSE /\ transaction_data' = Incidence(df)
            /\ pc' = "apriori"
            /\ UNCHANGED response
    /\ UNCHANGED <<df, handler, product, min_support, min_confidence, min_lift,
                   itemset_dict, support_dict, max_itemset, frequent_itemsets,
                   rules, rule_records, filtered>>

(* The threshold check and level 1 of apriori. *)
AprioriLevel1 ==
    /\ pc = "apriori"
    /\ IF min_support[1] <= 0
       THEN /\ Fail(MsgMinSupport)
            /\ UNCHANGED <<itemset_dict, support_dict, max_itemset>>
       ELSE LET columns == DOMAIN transaction_data[CHOOSE i \in DOMAIN transaction_data : TRUE]
                support == [p \in columns |-> SupportOfColumns(transaction_data, {p})]
                level == {{p} : p \in {x \in columns : IsFrequent(support[x], min_support)}}
            IN  /\ itemset_dict' = <<level>>
                /\ support_dict' = <<[c \in level |-> SupportOfColumns(transaction_data, c)]>>
                /\ max_itemset' = 1
                /\ pc' = "apriori_loop"
                /\ UNCHANGED response
    /\ UNCHANGED <<df, handler, product, min_support, min_confidence, min_lift,
                   transaction_data, frequent_itemsets, rules, rule_records,
                   filtered>>

(* One pass of the while loop: the next level, or the exit and the result  *)
(* table of apriori.                                                       *)
AprioriNextLevel ==
    /\ pc = "apriori_loop"
    /\ LET combin == generate_new_combinations(itemset_dict[max_itemset])
           support == [c \in combin |-> SupportOfColumns(transaction_data, c)]
           kept == {c \in combin : IsFrequent(support[c], min_support)}
       IN  IF combin # {} /\ kept # {}
           THEN /\ itemset_dict' = Append(itemset_dict, kept)
                /\ support_dict' = Append(support_dict, [c \in kept |-> support[c]])
                /\ max_itemset' = max_itemset + 1
                /\ UNCHANGED <<pc, frequent_itemsets>>
           ELSE /\ frequent_itemsets' =
                       Flatten([l \in 1 .. Len(itemset_dict) |->
                           LET level == ByRank(itemset_dict[l])
                           IN  [j \in 1 .. Len(level) |->
                                   [support |-> support_dict[l][level[j]],
                                    itemsets |-> level[j]]]])
                /\ pc' = "association_rules"
                /\ UNCHANGED <<itemset_dict, support_dict, max_itemset>>
    /\ UNCHANGED <<df, handler, product, min_support, min_confidence, min_lift,
                   transaction_data, rules, rule_records, filtered, response>>

AssociationRules ==
    /\ pc = "association_rules"
    /\ IF frequent_itemsets = <<>>
       THEN Fail(MsgNoItemsets) /\ UNCHANGED rules
       ELSE LET found == association_rules(frequent_itemsets, min_confidence)
            IN  /\ rules' = found
                /\ IF found = <<>>
                   THEN Fail(MsgNoRules)
                   ELSE pc' = "lift" /\ UNCHANGED response
    /\ UNCHANGED <<df, handler, product, min_support, min_confidence, min_lift,
                   transaction_data, itemset_dict, support_dict, max_itemset,
                   frequent_itemsets, rule_records, filtered>>

(***************************************************************************)
(* The end of generate_rules (the lift filter and the invoice loop) and    *)
(* the rest of each handler                                                *)
(***************************************************************************)
Rule(row) == [antecedents |-> row.antecedents, consequents |-> row.consequents,
              support |-> row.support, confidence |-> row.confidence,
              lift |-> row.lift]

(* grouped_rules.setdefault(invoice_id, []).append(rule) *)
GroupedRules(rules_df) ==
    [i \in {rules_df[j].invoice_id : j \in DOMAIN rules_df} |->
        LET mine(row) == row.invoice_id = i
            rows == SelectSeq(rules_df, mine)
        IN  [j \in 1 .. Len(rows) |-> Rule(rows[j])]]

(* Lines 50-72: rules and rule_records as generate_rules leaves them, or   *)
(* its error when the lift filter leaves no rule.                          *)
GenerateRulesReturns ==
    /\ rules' = LiftFiltered(rules, min_lift)
    /\ IF rules' = <<>>
       THEN rule_records' = rule_records
       ELSE rule_records' = RuleRecordsOf(df, Ascending(DOMAIN transaction_data), rules')

RespondGetRules ==
    /\ pc = "lift"
    /\ handler = "get_rules"
    /\ GenerateRulesReturns
    /\ IF rules' = <<>>
       THEN Fail(MsgNoRulesAfterLift)
       ELSE Respond(200, "success",
                    [rules_count |-> Len(rule_records'),
                     rules_by_invoice |-> GroupedRules(rule_records')])
    /\ UNCHANGED <<df, handler, product, min_support, min_confidence, min_lift,
                   transaction_data, itemset_dict, support_dict, max_itemset,
                   frequent_itemsets, filtered>>

RespondFilterRules ==
    /\ pc = "lift"
    /\ handler = "filter_rules"
    /\ GenerateRulesReturns
    /\ IF rules' = <<>>
       THEN Fail(MsgNoRulesAfterLift)
       ELSE Respond(200, "success",
                    [filtered_rules_count |-> Len(rule_records'),
                     filtered_rules |-> rule_records'])
    /\ UNCHANGED <<df, handler, product, min_support, min_confidence, min_lift,
                   transaction_data, itemset_dict, support_dict, max_itemset,
                   frequent_itemsets, filtered>>

(* An empty pd.DataFrame([]) has no columns: filtered_df['consequents']    *)
(* raises KeyError, which the handler reports as a 500.                    *)
RespondRulesByAntecedent ==
    /\ pc = "lift"
    /\ handler = "rules_by_antecedent"
    /\ GenerateRulesReturns
    /\ IF rules' = <<>>
       THEN Fail(MsgNoRulesAfterLift) /\ UNCHANGED filtered
       ELSE LET filtered_df == filter_rules_by_product(rule_records', product, "antecedent")
                unique_consequents ==
                    UNION {filtered_df[j].consequents : j \in DOMAIN filtered_df}
            IN  /\ filtered' = filtered_df
                /\ IF filtered_df = <<>>
                   THEN Fail(MsgKeyConsequents)
                   ELSE Respond(200, "", Ascending(unique_consequents))
    /\ UNCHANGED <<df, handler, product, min_support, min_confidence, min_lift,
                   transaction_data, itemset_dict, support_dict, max_itemset,
                   frequent_itemsets>>

RespondRulesByConsequent ==
    /\ pc = "lift"
    /\ handler = "rules_by_consequent"
    /\ GenerateRulesReturns
    /\ IF rules' = <<>>
       THEN Fail(MsgNoRulesAfterLift) /\ UNCHANGED filtered
       ELSE LET filtered_df == filter_rules_by_product(rule_records', product, "consequent")
                unique_antecedents ==
                    UNION {filtered_df[j].antecedents : j \in DOMAIN filtered_df}
            IN  /\ filtered' = filtered_df
                /\ IF filtered_df = <<>>
                   THEN Fail(MsgKeyAntecedents)
                   ELSE Respond(200, "", Ascending(unique_antecedents))
    /\ UNCHANGED <<df, handler, product, min_support, min_confidence, min_lift,
                   transaction_data, itemset_dict, support_dict, max_itemset,
                   frequent_itemsets>>

RespondRulesByProduct ==
    /\ pc = "lift"
    /\ handler = "rules_by_product"
    /\ GenerateRulesReturns
    /\ IF rules' = <<>>
       THEN Fail(MsgNoRulesAfterLift) /\ UNCHANGED filtered
       ELSE LET filtered_df == filter_rules_by_product(rule_records', product, "any")
                related_products ==
                    UNION {filtered_df[j].antecedents \cup filtered_df[j].consequents
                           : j \in DOMAIN filtered_df}
            IN  /\ filtered' = filtered_df
                /\ Respond(200, "", Ascending(related_products \ {product}))
    /\ UNCHANGED <<df, handler, product, min_support, min_confidence, min_lift,
                   transaction_data, itemset_dict, support_dict, max_itemset,
                   frequent_itemsets>>

Next ==
    \/ ReqGetRules
    \/ ReqFilterRules
    \/ ReqRulesByAntecedent
    \/ ReqRulesByConsequent
    \/ ReqRulesByProduct
    \/ LoadTransactionData
    \/ AprioriLevel1
    \/ AprioriNextLevel
    \/ AssociationRules
    \/ RespondGetRules
    \/ RespondFilterRules
    \/ RespondRulesByAntecedent
    \/ RespondRulesByConsequent
    \/ RespondRulesByProduct

Spec == Init /\ [][Next]_vars


(* The transactions of Scenario A: {A,B}, {A,B}, {A,C}, {B,C} with A, B, C *)
(* the products 1, 2, 3.                                                   *)
ScenarioA == <<{1, 2}, {1, 2}, {1, 3}, {2, 3}>>

InitScenario ==
    /\ df = Rows(ScenarioA)
    /\ Idle

SpecScenario == InitScenario /\ [][Next]_vars

(***************************************************************************)
(* What the claims are stated against: counts taken directly on the rows   *)
(* of the file.                                                            *)
(***************************************************************************)
N == Cardinality(InvoiceIds(df))
Count(I) == Cardinality({i \in InvoiceIds(df) : \A p \in I : <<i, p>> \in df})
ValidThreshold(t) == t[1] > 0 /\ t[1] <= t[2]
TrueFrequent == {I \in Itemsets : Count(I) * min_support[2] >= min_support[1] * N}
FoundItemsets == {frequent_itemsets[j].itemsets : j \in DOMAIN frequent_itemsets}

GenerateRulesErrors ==
    {MsgEmptyFile, MsgNoTransactions, MsgMinSupport, MsgNoItemsets, MsgNoRules,
     MsgNoRulesAfterLift}

(* apriori has just returned its table to generate_rules *)
AprioriReturned == pc = "association_rules"

(* apriori returned its table earlier in the request *)
AprioriHadReturned == pc = "lift" \/ (pc = "done" /\ max_itemset >= 1)

(* rule derivation has ended: both filters have run, or the confidence    *)
(* filter has left no rule                                                 *)
DerivationDone ==
    /\ pc = "done"
    /\ response.message \notin
              {MsgProductRequired, MsgEmptyFile, MsgNoTransactions, MsgMinSupport,
               MsgNoItemsets}

(* generate_rules has returned its records *)
GenerateRulesSucceeded ==
    pc = "done" /\ response.message \notin (GenerateRulesErrors \cup {MsgProductRequired})

(* C1: for a non-empty transaction list and min_support in (0,1], the      *)
(* table apriori returns holds exactly the non-empty itemsets whose        *)
(* support count/N reaches min_support, each once and each with its true   *)
(* support.                                                                *)
C1_AprioriExact ==
    (AprioriReturned /\ ValidThreshold(min_support)) =>
        /\ FoundItemsets = TrueFrequent
        /\ Len(frequent_itemsets) = Cardinality(TrueFrequent)
        /\ \A j \in DOMAIN frequent_itemsets :
              frequent_itemsets[j].support = <<Count(frequent_itemsets[j].itemsets), N>>

(* C1 witness: a table with an itemset of two products, and an occurring itemset left out *)
C1_Witness ==
    /\ AprioriReturned
    /\ ValidThreshold(min_support)
    /\ \E I \in TrueFrequent : Cardinality(I) >= 2
    /\ \E J \in Itemsets \ TrueFrequent : Count(J) > 0

SplitsOf(I) ==
    {ac \in {<<A, I \ A>> : A \in (SUBSET I) \ {{}, I}} :
        /\ Count(I) * min_confidence[2] >= min_confidence[1] * Count(ac[1])
        /\ Count(I) * N * min_lift[2] >= min_lift[1] * Count(ac[1]) * Count(ac[2])}

ExpectedRules == UNION {SplitsOf(I) : I \in TrueFrequent}

FoundSupport(I) ==
    frequent_itemsets[CHOOSE j \in DOMAIN frequent_itemsets :
                          frequent_itemsets[j].itemsets = I].support

(* C3: in every state of the search and in the table it returns, the       *)
(* frequent itemsets are downward closed: every non-empty subset J of a    *)
(* found itemset I is found, with support(J) >= support(I).                *)
C3_DownwardClosed ==
    /\ pc = "apriori_loop" =>
          \A I \in Mined : \A J \in (SUBSET I) \ {{}} :
              /\ J \in Mined
              /\ Geq(support_dict[Cardinality(J)][J], support_dict[Cardinality(I)][I])
    /\ AprioriReturned =>
          LET found == FoundItemsets
          IN  \A I \in found : \A J \in (SUBSET I) \ {{}} :
                  /\ J \in found
                  /\ Geq(FoundSupport(J), FoundSupport(I))

(* C3 witness: a mined itemset with a subset of strictly larger support *)
C3_Witness ==
    /\ pc = "apriori_loop"
    /\ max_itemset >= 2
    /\ \E I \in Mined : \E J \in (SUBSET I) \ {{}} :
          ~Geq(support_dict[Cardinality(I)][I], support_dict[Cardinality(J)][J])

ScenarioAt(ms) == df = Rows(ScenarioA) /\ min_support = ms

ScenarioAMined == ScenarioAt(<<1, 2>>) /\ AprioriReturned

HasItemset(I, s) ==
    \E j \in DOMAIN frequent_itemsets :
        /\ frequent_itemsets[j].itemsets = I
        /\ SameValue(frequent_itemsets[j].support, s)

(* C4 as claimed: Scenario A mined at min_support = 0.5 gives {A}: 0.5,   *)
(* {B}: 0.75, {C}: 0.5 and {A,B}: 0.5, and neither {A,C} nor {B,C}.        *)
C4_AsClaimed ==
    ScenarioAMined =>
        /\ FoundItemsets = {{1}, {2}, {3}, {1, 2}}
        /\ HasItemset({1}, <<1, 2>>)
        /\ HasItemset({2}, <<3, 4>>)
        /\ HasItemset({3}, <<1, 2>>)
        /\ HasItemset({1, 2}, <<1, 2>>)

(* C4 amended: the same, with {A}: 0.75 (A is in three of the four         *)
(* transactions).                                                          *)
C4_ScenarioA ==
    ScenarioAMined =>
        /\ FoundItemsets = {{1}, {2}, {3}, {1, 2}}
        /\ Len(frequent_itemsets) = 4
        /\ HasItemset({1}, <<3, 4>>)
        /\ HasItemset({2}, <<3, 4>>)
        /\ HasItemset({3}, <<1, 2>>)
        /\ HasItemset({1, 2}, <<1, 2>>)

(* C4 witness: Scenario A mined at min_support = 0.5 *)
C4_Witness == ScenarioAMined /\ Len(frequent_itemsets) = 4

ScenarioBConfidence ==
    /\ ScenarioAt(<<1, 2>>)
    /\ min_confidence = <<1, 2>>
    /\ pc = "lift"

HasRule(A, C, conf, lift) ==
    \E j \in DOMAIN rules :
        /\ rules[j].antecedents = A
        /\ rules[j].consequents = C
        /\ SameValue(rules[j].confidence, conf)
        /\ SameValue(rules[j].lift, lift)

(* C5 as claimed: the rules of Scenario A at min_confidence = 0.5 keep     *)
(* both A -> B, with confidence 1.0 and lift 2.0, and B -> A, with         *)
(* confidence 2/3 and lift 4/3.                                            *)
C5_AsClaimed ==
    ScenarioBConfidence =>
        /\ HasRule({1}, {2}, <<1, 1>>, <<2, 1>>)
        /\ HasRule({2}, {1}, <<2, 3>>, <<4, 3>>)

(* C5 amended: the confidence filter keeps both A -> B and B -> A, each    *)
(* with confidence 2/3 (0.5 / 0.75) and lift 8/9 (confidence / 0.75), and  *)
(* no other rule; a min_lift of 1.0 then removes both and generate_rules   *)
(* fails with "No rules found after applying lift filter".                 *)
C5_ScenarioB ==
    /\ ScenarioBConfidence =>
          /\ HasRule({1}, {2}, <<2, 3>>, <<8, 9>>)
          /\ HasRule({2}, {1}, <<2, 3>>, <<8, 9>>)
          /\ Len(rules) = 2
    /\ (ScenarioAt(<<1, 2>>) /\ min_confidence = <<1, 2>> /\ min_lift = <<1, 1>>
           /\ DerivationDone) =>
          /\ rules = <<>>
          /\ pc = "done"
          /\ response.status = 500
          /\ response.message = MsgNoRulesAfterLift

(* C5 witness: Scenario A at min_confidence = 0.5, before the default lift filter *)
C5_Witness == ScenarioBConfidence /\ min_lift = DefaultMinLift

(* C6: a mining call with min_support outside (0,1] fails with the         *)
(* threshold error and never reports another outcome.                      *)
C6_InvalidThresholdRejected ==
    (pc = "done" /\ df # {} /\ ~ValidThreshold(min_support)) =>
        /\ response.status = 500
        /\ response.message = MsgMinSupport

NotAllIdentical == \E i, j \in InvoiceIds(df) : ProductsOf(df, i) # ProductsOf(df, j)
InEveryInvoice == {p \in Products : \A i \in InvoiceIds(df) : <<i, p>> \in df}

(* C7 as claimed: min_support = 1.0 over transactions that are not all     *)
(* identical gives the empty set of frequent itemsets, and no error for    *)
(* the empty outcome.                                                      *)
C7_AsClaimed ==
    ((AprioriReturned \/ AprioriHadReturned) /\ min_support = <<1, 1>> /\ NotAllIdentical) =>
        /\ frequent_itemsets = <<>>
        /\ response.message # MsgNoItemsets

(* C7 amended: at min_support = 1.0 the search returns exactly the         *)
(* itemsets held by every transaction; when no product is in every         *)
(* transaction apriori returns the empty table without raising, and        *)
(* generate_rules then reports it as the error "No frequent itemsets       *)
(* found".                                                                 *)
C7_EmptyBoundary ==
    ((AprioriReturned \/ AprioriHadReturned) /\ min_support = <<1, 1>>) =>
        /\ FoundItemsets = (SUBSET InEveryInvoice) \ {{}}
        /\ InEveryInvoice = {} =>
              /\ frequent_itemsets = <<>>
              /\ pc \in {"association_rules", "done"}
              /\ pc = "association_rules" => response.status = 0
              /\ pc = "done" => (response.status = 500 /\ response.message = MsgNoItemsets)

(* C7 witness: no product in every invoice at min_support = 1.0 *)
C7_Witness ==
    /\ pc = "done"
    /\ min_support = <<1, 1>>
    /\ NotAllIdentical
    /\ InEveryInvoice = {}
    /\ response.message = MsgNoItemsets

RoleOf(h) == CASE h = "rules_by_antecedent" -> "antecedent"
               [] h = "rules_by_consequent" -> "consequent"
               [] OTHER -> "any"

InRole(row, prod, role) ==
    CASE role = "antecedent" -> prod \in row.antecedents
      [] role = "consequent" -> prod \in row.consequents
      [] OTHER -> prod \in (row.antecedents \cup row.consequents)

LookupDone ==
    /\ pc = "done"
    /\ handler \in {"rules_by_antecedent", "rules_by_consequent", "rules_by_product"}
    /\ GenerateRulesSucceeded

(* C8: the role lookup returns exactly the records that hold the product   *)
(* in that role, in their original order; a product in no rule gives the   *)
(* empty result.                                                           *)
C8_LookupExact ==
    LookupDone =>
        LET hits == {i \in DOMAIN rule_records : InRole(rule_records[i], product, RoleOf(handler))}
            order == Ascending(hits)
        IN  /\ Len(filtered) = Cardinality(hits)
            /\ \A j \in DOMAIN filtered : filtered[j] = rule_records[order[j]]
            /\ (\A i \in DOMAIN rule_records :
                    product \notin (rule_records[i].antecedents \cup rule_records[i].consequents))
                  => filtered = <<>>

(* C8 witness: an antecedent lookup that keeps some records and drops others *)
C8_Witness ==
    /\ LookupDone
    /\ handler = "rules_by_antecedent"
    /\ Len(filtered) > 1
    /\ Len(filtered) < Len(rule_records)
    /\ \E i \in DOMAIN rule_records : product \in rule_records[i].consequents

ConfidenceFiltered == pc = "lift"
Retained(A, I) ==
    \E j \in DOMAIN rules : rules[j].antecedents = A /\ rules[j].consequents = I \ A

C10_RecordsExact ==
    GenerateRulesSucceeded =>
        LET found == {<<rule_records[n].invoice_id, Rule(rule_records[n])>>
                      : n \in DOMAIN rule_records}
            expected == {ir \in InvoiceIds(df) \X {rules[j] : j \in DOMAIN rules} :
                            \A p \in ir[2].antecedents : <<ir[1], p>> \in df}
        IN  /\ rule_records # <<>>
            /\ found = expected
            /\ Len(rule_records) = Cardinality(expected)
            /\ \A j \in DOMAIN rules :
                  /\ Cardinality({ir \in found : ir[2] = rules[j]}) = Count(rules[j].antecedents)
                  /\ Count(rules[j].antecedents) >= 1

(* C10 witness: a record for an invoice without the consequent *)
C10_Witness ==
    /\ GenerateRulesSucceeded
    /\ \E n \in DOMAIN rule_records :
          ~(rule_records[n].consequents \subseteq ProductsOf(df, rule_records[n].invoice_id))
    /\ \E j \in DOMAIN rules : Count(rules[j].antecedents) < N

====
